---- MODULE Spec2Model ----
(***************************************************************************)
(* Model of readthedocs/oauth/services/github.py: GitHubService.           *)
(*                                                                         *)
(* Storage is two tables, repos (RemoteRepository) and orgs                *)
(* (RemoteOrganization); a row's primary key is its position in the table. *)
(* A service instance is a (user, account) pair.  The GitHub API is the    *)
(* environment: every response is drawn from a bounded set.                *)
(***************************************************************************)
EXTENDS Integers, Sequences, FiniteSets, TLC

VARIABLES
    repos,      \* RemoteRepository table
    orgs,       \* RemoteOrganization table
    last_call,  \* the create_repository call made by the latest step, if any
    last_ret,   \* what that call returned: a primary key, or None
    pg_chain,   \* paginate: the pages the API serves, each linking to the next
    pg_start,   \* paginate: the page the start URL names
    pg_out,     \* paginate: what the call produced
    pg_pc,      \* paginate: "idle" or "returned"
    pc,         \* sync: the statement sync() has reached
    queue,      \* sync: repositories the running for loop has yet to visit
    org_queue,  \* sync: organizations the for loop has yet to visit
    cur_org,    \* sync: org_obj and org['url'] of the current organization
    raised,     \* sync: the exception that left sync(), or "none"
    logged,     \* sync: log.error calls made by this sync()
    requested,  \* sync: the URLs this sync() has requested
    hook_pc,    \* setup_webhook: "idle", "posted" or "returned"
    hook_project, \* setup_webhook: the project passed
    hook_resp,  \* setup_webhook: what session.post produced
    hook_posts, \* setup_webhook: the URLs posted to by this call
    hook_ret,   \* setup_webhook: the value returned
    tok_pc,     \* get_token_for_project: "idle" or "returned"
    tok_in,     \* get_token_for_project: settings, arguments and stored tokens
    tok_ret,    \* get_token_for_project: the value returned
    tok_error   \* get_token_for_project: an exception was caught and logged

dbvars == <<repos, orgs, last_call, last_ret>>
pgvars == <<pg_chain, pg_start, pg_out, pg_pc>>
syncvars == <<pc, queue, org_queue, cur_org, raised, logged, requested>>
hookvars == <<hook_pc, hook_project, hook_resp, hook_posts, hook_ret>>
tokvars == <<tok_pc, tok_in, tok_ret, tok_error>>

----------------------------------------------------------------------------
(* Values *)

None == 0

Services ==
    { [user |-> "u1", account |-> "acc1"],
      [user |-> "u2", account |-> "acc2"] }

FullNames == {"rtd/docs", "rtd/www"}
Slugs == {"orgA", "orgB"}
Privacies == {"public", "protected", "private"}

\* The value settings give when they do not set it.
DEFAULT_PRIVACY_LEVEL == "public"

\* A repository object of the GitHub API, as the dictionary `fields`.
Payload(fn, priv) ==
    [ full_name   |-> fn,
      name        |-> <<"name", fn>>,
      description |-> <<"description", fn>>,
      ssh_url     |-> <<"git@github.com", fn>>,
      html_url    |-> <<"https://github.com", fn>>,
      clone_url   |-> <<"https://github.com", fn, ".git">>,
      private     |-> priv,
      admin       |-> TRUE,
      avatar_url  |-> <<"avatar", fn>> ]

Payloads == { Payload(fn, priv) : fn \in FullNames, priv \in BOOLEAN }

\* An organization object of the GitHub API.
OrgPayload(slug) ==
    [ login      |-> slug,
      html_url   |-> <<"https://github.com", slug>>,
      name       |-> <<"name", slug>>,
      email      |-> <<"email", slug>>,
      avatar_url |-> <<"avatar", slug>> ]

OrgPayloads == { OrgPayload(s) : s \in Slugs }

----------------------------------------------------------------------------
(* create_repository *)

\* The filter without the test of the requested privacy on its second arm.
PassesPrivacyAnyPublic(fields, privacy) ==
    \/ privacy = "private"
    \/ fields.private = FALSE

\* The visibility filter.
PassesPrivacy(fields, privacy) ==
    \/ privacy = "private"
    \/ (fields.private = FALSE /\ privacy = "public")

\* The lookup with the account compared against the user: it never matches.
RepoMatchesWrongAccount(rs, fields, self) ==
    { i \in DOMAIN rs : /\ rs[i].full_name = fields.full_name
                        /\ self.user \in rs[i].users
                        /\ rs[i].account = self.user }

\* RemoteRepository.objects.get(full_name=, users=, account=): matching rows.
RepoMatches(rs, fields, self) ==
    { i \in DOMAIN rs : /\ rs[i].full_name = fields.full_name
                        /\ self.user \in rs[i].users
                        /\ rs[i].account = self.account }

\* RemoteRepository.objects.create(full_name=, account=); users.add(user).
NewRepo(fields, self) ==
    [ full_name    |-> fields.full_name,
      account      |-> self.account,
      users        |-> {self.user},
      organization |-> None,
      name         |-> <<>>,
      description  |-> <<>>,
      ssh_url      |-> <<>>,
      html_url     |-> <<>>,
      clone_url    |-> <<>>,
      private      |-> FALSE,
      admin        |-> FALSE,
      vcs          |-> "",
      avatar_url   |-> <<>>,
      json         |-> <<>> ]

\* The conflict rule applied only to the user-level pass.
OrgMismatchOnlyNone(repo, organization) ==
    repo.organization # None /\ organization = None

\* The conflict rule with "no organization" never counted as a conflict.
OrgMismatchIgnoringNone(repo, organization) ==
    /\ repo.organization # None
    /\ organization # None
    /\ repo.organization # organization

\* The conflict rule: the row belongs to an organization other than the
\* one this call presents.
OrgMismatch(repo, organization) ==
    repo.organization # None /\ repo.organization # organization

\* The selection with the anonymous URL used for every repository.
CloneUrlAlwaysAnonymous(fields) == fields.clone_url

\* Clone URL selection.
CloneUrl(fields) ==
    IF fields.private THEN fields.ssh_url ELSE fields.clone_url

\* The field assignments made before repo.save().
UpdatedRepo(repo, fields, organization, self) ==
    [ repo EXCEPT
        !.organization = organization,
        !.name         = fields.name,
        !.description  = fields.description,
        !.ssh_url      = fields.ssh_url,
        !.html_url     = fields.html_url,
        !.private      = fields.private,
        !.clone_url    = CloneUrl(fields),
        !.admin        = fields.admin,
        !.vcs          = "git",
        !.account      = self.account,
        !.avatar_url   = fields.avatar_url,
        !.json         = <<"json", fields>> ]

\* The whole method: the table it leaves behind, what it returns (a primary
\* key or None) and the exception it raises, if any.
create_repository(rs, self, fields, privacy, organization) ==
    IF ~PassesPrivacy(fields, privacy)
    THEN [repos |-> rs, ret |-> None, exc |-> "none"]
    ELSE
      LET found == RepoMatches(rs, fields, self) IN
      IF Cardinality(found) > 1
      THEN [repos |-> rs, ret |-> None, exc |-> "MultipleObjectsReturned"]
      ELSE
        LET rs1 == IF found = {} THEN Append(rs, NewRepo(fields, self)) ELSE rs
            pk  == IF found = {} THEN Len(rs1) ELSE CHOOSE i \in found : TRUE
        IN
        IF OrgMismatch(rs1[pk], organization)
        THEN [repos |-> rs1, ret |-> None, exc |-> "none"]
        ELSE [repos |-> [rs1 EXCEPT
                            ![pk] = UpdatedRepo(@, fields, organization, self)],
              ret   |-> pk, exc |-> "none"]

----------------------------------------------------------------------------
(* create_organization *)

OrgMatches(os, fields, self) ==
    { i \in DOMAIN os : /\ os[i].slug = fields.login
                        /\ self.user \in os[i].users
                        /\ os[i].account = self.account }

NewOrg(fields, self) ==
    [ slug       |-> fields.login,
      account    |-> self.account,
      users      |-> {self.user},
      url        |-> <<>>,
      name       |-> <<>>,
      email      |-> <<>>,
      avatar_url |-> <<>>,
      json       |-> <<>> ]

UpdatedOrg(org, fields, self) ==
    [ org EXCEPT
        !.url        = fields.html_url,
        !.name       = fields.name,
        !.email      = fields.email,
        !.avatar_url = fields.avatar_url,
        !.json       = <<"json", fields>>,
        !.account    = self.account ]

create_organization(os, self, fields) ==
    LET found == OrgMatches(os, fields, self) IN
    IF Cardinality(found) > 1
    THEN [orgs |-> os, ret |-> None, exc |-> "MultipleObjectsReturned"]
    ELSE
      LET os1 == IF found = {} THEN Append(os, NewOrg(fields, self)) ELSE os
          pk  == IF found = {} THEN Len(os1) ELSE CHOOSE i \in found : TRUE
      IN [orgs |-> [os1 EXCEPT ![pk] = UpdatedOrg(@, fields, self)],
          ret  |-> pk, exc |-> "none"]

----------------------------------------------------------------------------
(* paginate *)

MaxPages == 3       \* pages in a chain
MaxPerPage == 2     \* items on a page

SeqsUpTo(S, n) == UNION { [1..k -> S] : k \in 0..n }

\* A response: the kind of its body ("list": a JSON array, "dict": a JSON
\* object, "invalid": not JSON), the items iterating the body yields, and
\* the URL of its "next" link (None when it has none).  URLs of a chain are
\* the positions of its pages.
Chain(bodies) ==
    [ i \in 1..Len(bodies) |->
        [ kind  |-> bodies[i].kind,
          items |-> bodies[i].items,
          next  |-> IF i < Len(bodies) THEN i + 1 ELSE None ] ]

ListBody(items) == [kind |-> "list", items |-> items]
DictBody(keys) == [kind |-> "dict", items |-> keys]
InvalidBody == [kind |-> "invalid", items |-> <<>>]

\* list.extend with the fetched tail put in front.
ExtendFront(result, more) == more \o result

\* list.extend.
Extend(result, more) == result \o more

\* paginate(url) against the responses in chain: the exception raised, if
\* any, the combined items, and the URLs requested, in order.
RECURSIVE paginate(_, _)
paginate(chain, url) ==
    LET resp == chain[url]
        next_url == resp.next
    IN
    IF resp.kind = "invalid"
    THEN [exc |-> "ValueError", kind |-> "none", items |-> <<>>, gets |-> <<url>>]
    ELSE IF next_url = None
    THEN [exc |-> "none", kind |-> resp.kind, items |-> resp.items, gets |-> <<url>>]
    ELSE IF resp.kind = "dict"
    THEN [exc |-> "AttributeError", kind |-> "none", items |-> <<>>, gets |-> <<url>>]
    ELSE
      LET more == paginate(chain, next_url) IN
      IF more.exc # "none"
      THEN [more EXCEPT !.gets = <<url>> \o more.gets]
      ELSE [exc |-> "none", kind |-> "list",
            items |-> Extend(resp.items, more.items),
            gets |-> <<url>> \o more.gets]

NoOut == [exc |-> "none", kind |-> "none", items |-> <<>>, gets |-> <<>>]

PageItems == {"a", "b"}

PageBodies ==
    { ListBody(items) : items \in SeqsUpTo(PageItems, MaxPerPage) }
        \cup {DictBody(<<"message">>), InvalidBody}

PageChains == { Chain(bodies) : bodies \in SeqsUpTo(PageBodies, MaxPages) \ {<<>>} }

PgIdle ==
    /\ pg_chain = <<>>
    /\ pg_start = None
    /\ pg_out = NoOut
    /\ pg_pc = "idle"

InitPaginate ==
    /\ pg_chain \in PageChains
    /\ pg_start = None
    /\ pg_out = NoOut
    /\ pg_pc = "idle"

Paginate ==
    /\ pg_pc = "idle"
    /\ \E url \in DOMAIN pg_chain :
        /\ pg_start' = url
        /\ pg_out' = paginate(pg_chain, url)
    /\ pg_pc' = "returned"
    /\ UNCHANGED pg_chain
    /\ UNCHANGED <<dbvars, syncvars, hookvars, tokvars>>

----------------------------------------------------------------------------
(* setup_webhook *)

\* project.repo, already split into owner and repository by
\* get_github_username_repo.
Projects ==
    { [owner |-> o, repo |-> r] : o \in {"rtd", "glasslion"},
                                  r \in {"docs", "www"} }

StatusCodes == {200, 201, 202, 204, 301, 400, 401, 403, 404, 422, 500, 502, 503}

\* What session.post produces: a response with a status code, or a
\* RequestException.
PostOutcomes ==
    { [exc |-> "none", status_code |-> c] : c \in StatusCodes }
        \cup { [exc |-> "RequestException", status_code |-> 0] }

HooksUrl(project) == <<"repos", project.owner, project.repo, "hooks">>

\* The return value with every 2xx status counted as success.
WebhookResultAny2xx(resp) ==
    IF resp.exc = "RequestException" THEN "None"
    ELSE IF resp.status_code \in 200..299 THEN "True"
    ELSE "False"

\* The return value of setup_webhook for what the POST produced: the
\* return inside try, the except clause that falls off the end, and the
\* else clause.
WebhookResult(resp) ==
    IF resp.exc = "RequestException" THEN "None"
    ELSE IF resp.status_code = 201 THEN "True"
    ELSE "False"

NoResp == [exc |-> "none", status_code |-> 0]

HookIdle ==
    /\ hook_pc = "idle"
    /\ hook_project = CHOOSE p \in Projects : TRUE
    /\ hook_resp = NoResp
    /\ hook_posts = <<>>
    /\ hook_ret = "None"

\* setup_webhook up to and including session.post.
WebhookPost ==
    /\ hook_pc \in {"idle", "returned"}
    /\ \E project \in Projects, resp \in PostOutcomes :
        /\ hook_project' = project
        /\ hook_resp' = resp
        /\ hook_posts' = <<HooksUrl(project)>>
    /\ hook_ret' = "None"
    /\ hook_pc' = "posted"
    /\ UNCHANGED <<dbvars, pgvars, syncvars, tokvars>>

\* setup_webhook from the status test to its return.
WebhookReturn ==
    /\ hook_pc = "posted"
    /\ hook_ret' = WebhookResult(hook_resp)
    /\ hook_pc' = "returned"
    /\ UNCHANGED <<hook_project, hook_resp, hook_posts>>
    /\ UNCHANGED <<dbvars, pgvars, syncvars, tokvars>>

----------------------------------------------------------------------------
(* get_token_for_project *)

ProjectUsers == {"u1", "u2", "u3"}

\* project.users.all(): the users in iteration order, none twice.
UserLists ==
    { us \in SeqsUpTo(ProjectUsers, Cardinality(ProjectUsers)) :
        \A i, j \in DOMAIN us : i # j => us[i] # us[j] }

\* SocialToken rows of the provider for user u, in query order.
TokensOf(u, n) == [ k \in 1..n |-> <<"token", u, k>> ]

\* The stored tokens: every user has none, one or two.
TokenTables ==
    { [ u \in ProjectUsers |-> TokensOf(u, n[u]) ] :
        n \in [ProjectUsers -> 0..2] }

NoToken == <<>>

\* The loop over project.users.all() from position i on; token is the
\* value of the variable so far, fails_at the position whose query raises
\* (None: no query raises).
RECURSIVE ScanUsers(_, _, _, _, _)
ScanUsers(users, tokens, fails_at, i, token) ==
    IF i > Len(users) THEN [token |-> token, error |-> FALSE]
    ELSE IF i = fails_at THEN [token |-> token, error |-> TRUE]
    ELSE ScanUsers(users, tokens, fails_at, i + 1,
                   IF tokens[users[i]] # <<>>
                   THEN tokens[users[i]][1] ELSE token)

\* The whole method: the token returned (NoToken for None) and whether an
\* exception was caught and logged.
get_token_for_project(in) ==
    IF ~in.ALLOW_PRIVATE_REPOS
    THEN [token |-> NoToken, error |-> FALSE]
    ELSE IF in.DONT_HIT_DB /\ ~in.force_local
    THEN IF in.api_fails
         THEN [token |-> NoToken, error |-> TRUE]
         ELSE [token |-> in.api_token, error |-> FALSE]
    ELSE ScanUsers(in.users, in.tokens, in.fails_at, 1, NoToken)

TokenInputs ==
    [ ALLOW_PRIVATE_REPOS : BOOLEAN,
      DONT_HIT_DB : BOOLEAN,
      force_local : BOOLEAN,
      api_fails : BOOLEAN,
      api_token : {<<"token", "api", 1>>},
      users : UserLists,
      tokens : TokenTables,
      fails_at : {None} \cup (1..Cardinality(ProjectUsers)) ]

NoInput ==
    [ ALLOW_PRIVATE_REPOS |-> FALSE, DONT_HIT_DB |-> TRUE,
      force_local |-> FALSE, api_fails |-> FALSE,
      api_token |-> <<"token", "api", 1>>, users |-> <<>>,
      tokens |-> [u \in ProjectUsers |-> <<>>], fails_at |-> None ]

TokIdle ==
    /\ tok_pc = "idle"
    /\ tok_in = NoInput
    /\ tok_ret = NoToken
    /\ tok_error = FALSE

\* A call about to be made, with its settings, arguments and stored
\* tokens.
InitTok ==
    /\ tok_pc = "idle"
    /\ tok_in \in TokenInputs
    /\ tok_ret = NoToken
    /\ tok_error = FALSE

GetTokenForProject ==
    /\ tok_pc = "idle"
    /\ LET r == get_token_for_project(tok_in) IN
        /\ tok_ret' = r.token
        /\ tok_error' = r.error
    /\ tok_pc' = "returned"
    /\ UNCHANGED tok_in
    /\ UNCHANGED <<dbvars, pgvars, syncvars, hookvars>>

----------------------------------------------------------------------------
(* Direct calls of the two upsert methods *)

SyncIdle ==
    /\ pc = "idle"
    /\ queue = <<>>
    /\ org_queue = <<>>
    /\ cur_org = None
    /\ raised = "none"
    /\ logged = 0
    /\ requested = {}


\* The payloads of the direct calls: one repository, public or private.
CallPayloads == { Payload("rtd/docs", priv) : priv \in BOOLEAN }

NoCall ==
    [ op |-> "none", self |-> CHOOSE s \in Services : TRUE,
      fields |-> CHOOSE p \in Payloads : TRUE,
      privacy |-> DEFAULT_PRIVACY_LEVEL, organization |-> None ]

Call(self, fields, privacy, organization) ==
    [ op |-> "create_repository", self |-> self, fields |-> fields,
      privacy |-> privacy, organization |-> organization ]

\* The organizations a service's own syncs have stored: the rows whose
\* users include the service's user.  create_repository only ever receives
\* an organization that the same service's create_organization returned.
OwnOrgs(os, self) ==
    { i \in DOMAIN os : self.user \in os[i].users /\ os[i].account = self.account }

\* The organization table after earlier syncs: u1 belongs to both
\* organizations, u2 to one.
StoredOrgs ==
    LET u1 == [user |-> "u1", account |-> "acc1"]
        u2 == [user |-> "u2", account |-> "acc2"]
        o1 == create_organization(<<>>, u1, OrgPayload("orgA")).orgs
        o2 == create_organization(o1, u1, OrgPayload("orgB")).orgs
    IN create_organization(o2, u2, OrgPayload("orgA")).orgs

InitDb ==
    /\ repos = <<>>
    /\ orgs = StoredOrgs
    /\ last_call = NoCall
    /\ last_ret = None

CreateRepository ==
    /\ UNCHANGED <<pgvars, syncvars, hookvars, tokvars>>
    /\ \E self \in Services, fields \in CallPayloads, privacy \in Privacies :
      \E organization \in {None} \cup OwnOrgs(orgs, self) :
        LET r == create_repository(repos, self, fields, privacy, organization)
        IN /\ repos' = r.repos
           /\ last_call' = Call(self, fields, privacy, organization)
           /\ last_ret' = r.ret
           /\ UNCHANGED orgs

vars == <<dbvars, pgvars, syncvars, hookvars, tokvars>>

Init == InitDb /\ PgIdle /\ SyncIdle /\ HookIdle /\ TokIdle

Next == CreateRepository

Spec == Init /\ [][Next]_vars

InitPg == InitDb /\ InitPaginate /\ SyncIdle /\ HookIdle /\ TokIdle

NextPg == Paginate

SpecPaginate == InitPg /\ [][NextPg]_vars


\* Empty tables and no call under way.
InitOther ==
    /\ repos = <<>>
    /\ orgs = <<>>
    /\ last_call = NoCall
    /\ last_ret = None
    /\ PgIdle
    /\ SyncIdle
    /\ HookIdle
    /\ TokIdle

----------------------------------------------------------------------------
(* sync, sync_repositories, sync_organizations *)

MaxSyncPages == 2     \* pages per listing during a sync, of at most one item

\* The service that runs sync().
SyncSelf == [user |-> "u1", account |-> "acc1"]

\* What iterating a JSON object yields: its keys, which are strings.
StrItem(key) == [str |-> key]

\* An item supports item['private'], item['url'], ...: it is a dictionary.
IsDict(item) == "str" \notin DOMAIN item

\* An entry of /user/orgs.
OrgItem(slug) == [login |-> slug, url |-> <<"orgs", slug>>]

ErrorKeys == <<StrItem("message")>>

SyncRepoChains ==
    { Chain(bodies) :
        bodies \in SeqsUpTo(
            { ListBody(items) : items \in SeqsUpTo(Payloads, 1) }
                \cup {DictBody(ErrorKeys), InvalidBody},
            MaxSyncPages) \ {<<>>} }

SyncOrgChains ==
    { Chain(bodies) :
        bodies \in SeqsUpTo(
            { ListBody(items) :
                items \in SeqsUpTo({ OrgItem(sl) : sl \in Slugs }, 1) }
                \cup {DictBody(ErrorKeys), InvalidBody},
            MaxSyncPages) \ {<<>>} }

\* The organization detail responses: the organization, or a body that is
\* not JSON.
OrgResponses(org) == {ListBody(<<OrgPayload(org.login)>>), InvalidBody}

\* sync() with the exception of sync_repositories swallowed.
AfterRepositoriesAlways(exc) == "sync_organizations"

\* sync(): where control goes when sync_repositories ends with exc.
AfterRepositories(exc) ==
    IF exc = "none" THEN "sync_organizations" ELSE "done"

\* The except clauses of the two sync methods.
Caught(exc) == exc \in {"TypeError", "ValueError"}

\* What leaves a try block whose body raised exc.
Reraised(exc) == IF Caught(exc) THEN "Exception" ELSE exc

SyncStart ==
    /\ pc \in {"idle", "done"}
    /\ pc' = "sync_repositories"
    /\ queue' = <<>>
    /\ org_queue' = <<>>
    /\ cur_org' = None
    /\ raised' = "none"
    /\ logged' = 0
    /\ requested' = {}
    /\ last_call' = NoCall
    /\ last_ret' = None
    /\ UNCHANGED <<repos, orgs>>
    /\ UNCHANGED <<pgvars, hookvars, tokvars>>

\* sync_repositories: the paginate call, made before the try block.
FetchRepos ==
    /\ pc = "sync_repositories"
    /\ \E chain \in SyncRepoChains :
        LET r == paginate(chain, 1) IN
        /\ requested' = requested \cup {<<"user", "repos">>}
        /\ IF r.exc # "none"
           THEN /\ raised' = r.exc
                /\ pc' = AfterRepositories(r.exc)
                /\ queue' = <<>>
           ELSE /\ raised' = "none"
                /\ pc' = "repos_loop"
                /\ queue' = r.items
    /\ last_call' = NoCall
    /\ last_ret' = None
    /\ UNCHANGED <<repos, orgs, org_queue, cur_org, logged>>
    /\ UNCHANGED <<pgvars, hookvars, tokvars>>

\* One iteration of a for loop over repositories: create_repository on the
\* next item, under the try block of the method that runs the loop.
UpsertNext(organization, on_error) ==
    /\ queue # <<>>
    /\ LET repo == Head(queue) IN
       IF ~IsDict(repo)
       THEN /\ raised' = Reraised("TypeError")
            /\ logged' = logged + 1
            /\ pc' = on_error
            /\ queue' = <<>>
            /\ last_call' = NoCall
            /\ last_ret' = None
            /\ UNCHANGED repos
       ELSE LET r == create_repository(repos, SyncSelf, repo,
                                       DEFAULT_PRIVACY_LEVEL, organization)
            IN /\ repos' = r.repos
               /\ last_call' = Call(SyncSelf, repo, DEFAULT_PRIVACY_LEVEL,
                                    organization)
               /\ last_ret' = r.ret
               /\ queue' = Tail(queue)
               /\ UNCHANGED <<raised, logged, pc>>

\* sync_repositories: the loop body.
RepoItem ==
    /\ pc = "repos_loop"
    /\ UpsertNext(None, AfterRepositories("Exception"))
    /\ UNCHANGED <<orgs, org_queue, cur_org, requested>>
    /\ UNCHANGED <<pgvars, hookvars, tokvars>>

\* sync_repositories returns.
ReposDone ==
    /\ pc = "repos_loop"
    /\ queue = <<>>
    /\ pc' = AfterRepositories("none")
    /\ last_call' = NoCall
    /\ last_ret' = None
    /\ UNCHANGED <<repos, orgs, queue, org_queue, cur_org, raised, logged,
                   requested>>
    /\ UNCHANGED <<pgvars, hookvars, tokvars>>

\* sync_organizations: the paginate call, inside the try block.
FetchOrgs ==
    /\ pc = "sync_organizations"
    /\ \E chain \in SyncOrgChains :
        LET r == paginate(chain, 1) IN
        /\ requested' = requested \cup {<<"user", "orgs">>}
        /\ IF r.exc # "none"
           THEN /\ raised' = Reraised(r.exc)
                /\ logged' = IF Caught(r.exc) THEN logged + 1 ELSE logged
                /\ pc' = "done"
                /\ org_queue' = <<>>
           ELSE /\ raised' = "none"
                /\ logged' = logged
                /\ pc' = "orgs_loop"
                /\ org_queue' = r.items
    /\ last_call' = NoCall
    /\ last_ret' = None
    /\ UNCHANGED <<repos, orgs, queue, cur_org>>
    /\ UNCHANGED <<pgvars, hookvars, tokvars>>

\* sync_organizations: the organization detail request and
\* create_organization.
OrgDetail ==
    /\ pc = "orgs_loop"
    /\ org_queue # <<>>
    /\ LET org == Head(org_queue) IN
       IF ~IsDict(org)
       THEN /\ raised' = Reraised("TypeError")
            /\ logged' = logged + 1
            /\ pc' = "done"
            /\ org_queue' = <<>>
            /\ UNCHANGED <<orgs, cur_org, requested>>
       ELSE \E org_resp \in OrgResponses(org) :
            /\ requested' = requested \cup {org.url}
            /\ IF org_resp.kind = "invalid"
               THEN /\ raised' = Reraised("ValueError")
                    /\ logged' = logged + 1
                    /\ pc' = "done"
                    /\ org_queue' = <<>>
                    /\ UNCHANGED <<orgs, cur_org>>
               ELSE LET r == create_organization(orgs, SyncSelf,
                                                 org_resp.items[1])
                    IN /\ orgs' = r.orgs
                       /\ cur_org' = [obj |-> r.ret, url |-> org.url]
                       /\ org_queue' = Tail(org_queue)
                       /\ pc' = "org_repos"
                       /\ UNCHANGED <<raised, logged>>
    /\ last_call' = NoCall
    /\ last_ret' = None
    /\ UNCHANGED <<repos, queue>>
    /\ UNCHANGED <<pgvars, hookvars, tokvars>>

\* sync_organizations: the paginate call for the organization's
\* repositories.
FetchOrgRepos ==
    /\ pc = "org_repos"
    /\ \E chain \in SyncRepoChains :
        LET r == paginate(chain, 1) IN
        /\ requested' = requested \cup {cur_org.url \o <<"repos">>}
        /\ IF r.exc # "none"
           THEN /\ raised' = Reraised(r.exc)
                /\ logged' = IF Caught(r.exc) THEN logged + 1 ELSE logged
                /\ pc' = "done"
                /\ queue' = <<>>
           ELSE /\ raised' = "none"
                /\ logged' = logged
                /\ pc' = "org_repos_loop"
                /\ queue' = r.items
    /\ last_call' = NoCall
    /\ last_ret' = None
    /\ UNCHANGED <<repos, orgs, org_queue, cur_org>>
    /\ UNCHANGED <<pgvars, hookvars, tokvars>>

\* sync_organizations: the inner loop body.
OrgRepoItem ==
    /\ pc = "org_repos_loop"
    /\ UpsertNext(cur_org.obj, "done")
    /\ UNCHANGED <<orgs, org_queue, cur_org, requested>>
    /\ UNCHANGED <<pgvars, hookvars, tokvars>>

\* sync_organizations: the inner loop ends.
OrgReposDone ==
    /\ pc = "org_repos_loop"
    /\ queue = <<>>
    /\ pc' = "orgs_loop"
    /\ last_call' = NoCall
    /\ last_ret' = None
    /\ UNCHANGED <<repos, orgs, queue, org_queue, cur_org, raised, logged,
                   requested>>
    /\ UNCHANGED <<pgvars, hookvars, tokvars>>

\* sync_organizations, and with it sync(), returns.
OrgsDone ==
    /\ pc = "orgs_loop"
    /\ org_queue = <<>>
    /\ pc' = "done"
    /\ last_call' = NoCall
    /\ last_ret' = None
    /\ UNCHANGED <<repos, orgs, queue, org_queue, cur_org, raised, logged,
                   requested>>
    /\ UNCHANGED <<pgvars, hookvars, tokvars>>

NextSync ==
    \/ SyncStart
    \/ FetchRepos
    \/ RepoItem
    \/ ReposDone
    \/ FetchOrgs
    \/ OrgDetail
    \/ FetchOrgRepos
    \/ OrgRepoItem
    \/ OrgReposDone
    \/ OrgsDone

SpecSync == InitOther /\ [][NextSync]_vars

NextWebhook == WebhookPost \/ WebhookReturn

SpecWebhook == InitOther /\ [][NextWebhook]_vars

NextToken == GetTokenForProject

InitToken ==
    /\ repos = <<>>
    /\ orgs = <<>>
    /\ last_call = NoCall
    /\ last_ret = None
    /\ PgIdle
    /\ SyncIdle
    /\ HookIdle
    /\ InitTok

SpecToken == InitToken /\ [][NextToken]_vars

----------------------------------------------------------------------------
(* Properties of create_repository *)

\* The rows of table rs stored under the key of call c.
KeyRows(rs, c) ==
    { i \in DOMAIN rs : /\ rs[i].full_name = c.fields.full_name
                        /\ c.self.user \in rs[i].users
                        /\ rs[i].account = c.self.account }

\* Call c asks for the payload to be considered at all.
Requested(c) ==
    \/ c.privacy = "private"
    \/ (c.fields.private = FALSE /\ c.privacy = "public")

\* A row stored under the key of call c is linked to an organization other
\* than the organization c presents.
PresentsOtherOrg(rs, c) ==
    \E i \in KeyRows(rs, c) :
        /\ rs[i].organization # None
        /\ c.organization # None
        /\ rs[i].organization # c.organization

\* C1: a call that presents a stored repository of organization A under a
\* different organization B changes no row and returns nothing, and no
\* call ever moves a row from one organization to another.
C1_OtherOrgLeavesUntouched ==
    [][ /\ (last_call'.op = "create_repository" /\ PresentsOtherOrg(repos, last_call'))
            => (repos' = repos /\ orgs' = orgs /\ last_ret' = None)
        /\ \A i \in DOMAIN repos :
              repos[i].organization # None
                => /\ i \in DOMAIN repos'
                   /\ repos'[i].organization = repos[i].organization
      ]_vars

\* A passing call has just presented a row of one organization under
\* another one, and nothing was returned.
C1_Witness ==
    /\ last_call.op = "create_repository"
    /\ Requested(last_call)
    /\ PresentsOtherOrg(repos, last_call)
    /\ last_ret = None

\* No two rows share (full_name, user, account).
NoDuplicateRepos ==
    \A i, j \in DOMAIN repos :
        ( /\ i # j
          /\ repos[i].full_name = repos[j].full_name
          /\ repos[i].account = repos[j].account )
            => repos[i].users \cap repos[j].users = {}

\* C2: storage never holds two rows for one (full_name, user, account),
\* and a call whose key is already stored adds no row.
C2_OneRowPerKey ==
    /\ []NoDuplicateRepos
    /\ [][ (last_call'.op = "create_repository" /\ KeyRows(repos, last_call') # {})
              => Len(repos') = Len(repos) ]_vars

\* The latest call returned a row that is not the newest one while another
\* user's row is stored too: an existing row was updated in place.
C2_Witness ==
    /\ last_call.op = "create_repository"
    /\ last_ret # None
    /\ last_ret < Len(repos)
    /\ Cardinality(KeyRows(repos, last_call)) = 1

\* The row the call c returned carries exactly the payload of c.
Imported(rs, c, ret) ==
    /\ ret \in DOMAIN rs
    /\ ret \in KeyRows(rs, c)
    /\ rs[ret].name = c.fields.name
    /\ rs[ret].private = c.fields.private
    /\ rs[ret].organization = c.organization

\* C3 as stated: a payload is imported exactly when the requested privacy
\* is "private", or the payload is public and the requested privacy is
\* "public"; otherwise nothing is returned, created or modified.
C3_ImportIffRequested ==
    [][ last_call'.op = "create_repository"
          => /\ Requested(last_call') <=> Imported(repos', last_call', last_ret')
             /\ ~Requested(last_call') => (repos' = repos /\ last_ret' = None)
      ]_vars

\* C3 amended: a payload is imported exactly when the filter passes and no
\* stored row of its key is linked to an organization other than the one
\* passed (none included); in every other case nothing is returned and no
\* row is created or modified.
OtherOrgStored(rs, c) ==
    \E i \in KeyRows(rs, c) :
        rs[i].organization # None /\ rs[i].organization # c.organization

C3_ImportIffRequestedAndNoConflict ==
    [][ last_call'.op = "create_repository"
          => LET go == Requested(last_call') /\ ~OtherOrgStored(repos, last_call')
             IN /\ go <=> Imported(repos', last_call', last_ret')
                /\ ~go => (repos' = repos /\ last_ret' = None)
      ]_vars

\* A private payload was offered under requested privacy "public" and
\* skipped, next to a stored row.
C3_Witness ==
    /\ last_call.op = "create_repository"
    /\ last_call.fields.private
    /\ last_call.privacy = "public"
    /\ last_ret = None
    /\ repos # <<>>

\* C4: the row a call returns has the SSH URL as its clone URL when the
\* payload is private and the anonymous clone URL when it is public.
C4_CloneUrlByVisibility ==
    (last_call.op = "create_repository" /\ last_ret # None)
        => /\ last_ret \in DOMAIN repos
           /\ last_call.fields.private
                => repos[last_ret].clone_url = last_call.fields.ssh_url
           /\ ~last_call.fields.private
                => repos[last_ret].clone_url = last_call.fields.clone_url

\* A private payload was stored, with its SSH URL as the clone URL.
C4_Witness ==
    /\ last_call.op = "create_repository"
    /\ last_ret # None
    /\ last_call.fields.private
    /\ repos[last_ret].clone_url = last_call.fields.ssh_url
    /\ repos[last_ret].clone_url # last_call.fields.clone_url

----------------------------------------------------------------------------
(* Properties of paginate *)

\* The items of the first n pages, page after page.
RECURSIVE ItemsOfFirst(_, _)
ItemsOfFirst(chain, n) ==
    IF n = 0 THEN <<>> ELSE ItemsOfFirst(chain, n - 1) \o chain[n].items

AllLists(chain) == \A i \in DOMAIN chain : chain[i].kind = "list"

\* C5: on a chain of N pages of JSON arrays, paginate from the first page
\* requests pages 1..N once each, in order, and returns all their items in
\* page order.
C5_PaginateConcatenates ==
    (pg_pc = "returned" /\ pg_start = 1 /\ AllLists(pg_chain))
        => /\ pg_out.exc = "none"
           /\ pg_out.items = ItemsOfFirst(pg_chain, Len(pg_chain))
           /\ pg_out.gets = [i \in 1..Len(pg_chain) |-> i]

\* A chain of three pages with different items was combined.
C5_Witness ==
    /\ pg_pc = "returned"
    /\ pg_start = 1
    /\ AllLists(pg_chain)
    /\ Len(pg_chain) >= 3
    /\ pg_chain[1].items = <<"a", "b">>
    /\ pg_chain[2].items = <<"a">>
    /\ pg_chain[3].items = <<"b", "a">>
    /\ pg_out.items = <<"a", "b", "a", "b", "a">>
    /\ Len(pg_out.gets) = Len(pg_chain)

----------------------------------------------------------------------------
(* Properties of sync *)

RepoStages == {"sync_repositories", "repos_loop"}
OrgStages == {"sync_organizations", "orgs_loop", "org_repos", "org_repos_loop"}

\* C6 as stated: no sync ends with a raw type or value error; such an
\* error is logged and leaves as the generic error, and the sync stops
\* where it failed.
C6_SyncErrorsAreGeneric ==
    /\ raised \notin {"TypeError", "ValueError"}
    /\ raised = "Exception" => logged = 1
    /\ raised # "none" => pc = "done"

\* C7: sync_organizations starts only from a sync_repositories that
\* returned normally; while sync_repositories runs, and when it raises, no
\* organization is requested, created or updated, and the raise ends sync().
C7_ReposThenOrgs ==
    [][ /\ (pc' \in OrgStages /\ pc \notin OrgStages)
            => (pc = "repos_loop" /\ queue = <<>> /\ raised' = "none")
        /\ pc \in RepoStages
            => /\ orgs' = orgs
               /\ requested' \subseteq {<<"user", "repos">>}
               /\ raised' # "none" => pc' = "done"
        /\ (orgs' # orgs \/ ~(requested' \subseteq requested \cup {<<"user", "repos">>}))
            => (pc \in OrgStages \/ pc' = "sync_repositories")
      ]_vars

\* sync_repositories raised on a malformed item: sync() is over with the
\* generic error and only the repository listing was requested, although
\* an earlier sync had stored an organization.
C7_Witness ==
    /\ pc = "done"
    /\ raised = "Exception"
    /\ logged = 1
    /\ requested = {<<"user", "repos">>}
    /\ orgs # <<>>

\* C10: a call without organization on a row that is linked to one returns
\* nothing and changes nothing; a linked row keeps its organization, and
\* the only calls that store it again are calls of the sync_organizations
\* pass that present it under that organization.
C10_UserPassSkipsLinkedRows ==
    [][ /\ ( /\ last_call'.op = "create_repository"
              /\ last_call'.organization = None
              /\ \E i \in KeyRows(repos, last_call') : repos[i].organization # None )
            => (last_ret' = None /\ repos' = repos)
        /\ \A i \in DOMAIN repos :
              repos[i].organization # None
                => /\ i \in DOMAIN repos'
                   /\ repos'[i].organization = repos[i].organization
                   /\ (repos'[i] # repos[i] \/ last_ret' = i)
                        => /\ pc = "org_repos_loop"
                           /\ last_call'.organization = repos[i].organization
                           /\ cur_org.obj = repos[i].organization
      ]_vars

\* sync_repositories has just presented, without organization, a public
\* repository whose row is linked to an organization, and got nothing.
C10_Witness ==
    /\ pc = "repos_loop"
    /\ last_call.op = "create_repository"
    /\ last_call.organization = None
    /\ Requested(last_call)
    /\ last_ret = None
    /\ \E i \in KeyRows(repos, last_call) : repos[i].organization # None

----------------------------------------------------------------------------
(* Properties of setup_webhook *)

----------------------------------------------------------------------------
(* Properties of get_token_for_project *)

LocalScan(in) ==
    in.ALLOW_PRIVATE_REPOS /\ (~in.DONT_HIT_DB \/ in.force_local)

\* The positions of the users that have a stored token.
Holders(in) == { i \in DOMAIN in.users : in.tokens[in.users[i]] # <<>> }

\* C9 as stated: on the local scan the result is the token of the first
\* user, in iteration order, that has one, or nothing when none has.
C9_FirstMatchWins ==
    (tok_pc = "returned" /\ LocalScan(tok_in) /\ ~tok_error)
        => IF Holders(tok_in) = {} THEN tok_ret = NoToken
           ELSE LET first == CHOOSE i \in Holders(tok_in) :
                                \A j \in Holders(tok_in) : i <= j
                IN tok_ret = tok_in.tokens[tok_in.users[first]][1]

====
